---- MODULE Spec2Model ----
(***************************************************************************)
(* SmartAttend: the life cycle of an uploaded attendance file in the       *)
(* backend (AttendanceController: uploadFile, processFileAsync,            *)
(* getProcessingStatus) and the stand-alone matching endpoint              *)
(* POST /api/process-attendance of the simple production server.           *)
(*                                                                         *)
(* Text is a sequence of one-character strings, so that joining and        *)
(* splitting rows and cells is computed, not assumed.                      *)
(***************************************************************************)
EXTENDS Integers, Sequences, FiniteSets, Bags, TLC

VARIABLES
    server,            \* which program is running: the backend or the simple server
    alive,             \* FALSE once process.exit(1) has run
    uploadsDir,        \* files multer has stored: path -> parsed table of the file
    fileUploads,       \* table file_uploads: id -> row
    processedRecords,  \* table processed_records, a bag of rows
    runs,              \* the calls of processFileAsync, in call order
    responses,         \* the answers of uploadFile, in request order
    statusReply,       \* the answer getProcessingStatus sends in this step, if it is one
    claimCount,        \* history: per file id, the successful updates to PROCESSING
    pa,                \* the process-attendance request being served and its answer
    fb,                \* the feedback request being served, its answer, and the learner
    att,               \* table attendance_records, the upserts under way, the answers
    auth               \* table refresh_tokens, the reset key, the AuthService calls

vars == <<server, alive, uploadsDir, fileUploads, processedRecords, runs,
          responses, statusReply, claimCount, pa, fb, att, auth>>

backendVars == <<alive, uploadsDir, fileUploads, processedRecords, runs,
                 responses, statusReply, claimCount>>

----------------------------------------------------------------------------
(* Bounds *)

MaxFiles == 2      \* upload requests served
MaxLines == 4      \* lines (header line and data rows) of all stored files together
MaxRows == 2       \* data rows of a csvData request body
MaxOracleItems == 2 \* entries of the two lists of the oracle's answer, together

Null == "null"
None == <<>>          \* an absent (null) JSON column
Some(x) == <<x>>      \* a JSON column holding x
Now == "now"
NoStatusReply == [code |-> 0]

----------------------------------------------------------------------------
(* Text *)

NL == <<"\n">>
BackslashN == <<"\\", "n">>
Comma == <<",">>
Whitespace == {" ", "\n", "\t", "\r"}

RECURSIVE Join(_, _)
Join(parts, sep) ==
    IF parts = <<>> THEN <<>>
    ELSE IF Len(parts) = 1 THEN parts[1]
    ELSE parts[1] \o sep \o Join(Tail(parts), sep)

StartsWith(text, sep) ==
    Len(text) >= Len(sep) /\ SubSeq(text, 1, Len(sep)) = sep

RECURSIVE SplitFrom(_, _, _)
SplitFrom(text, sep, cur) ==
    IF text = <<>> THEN <<cur>>
    ELSE IF StartsWith(text, sep)
         THEN <<cur>> \o SplitFrom(SubSeq(text, Len(sep) + 1, Len(text)), sep, <<>>)
         ELSE SplitFrom(Tail(text), sep, Append(cur, Head(text)))

Split(text, sep) == SplitFrom(text, sep, <<>>)

RECURSIVE TrimStart(_)
TrimStart(text) ==
    IF text # <<>> /\ Head(text) \in Whitespace THEN TrimStart(Tail(text)) ELSE text

RECURSIVE TrimEnd(_)
TrimEnd(text) ==
    IF text # <<>> /\ text[Len(text)] \in Whitespace
    THEN TrimEnd(SubSeq(text, 1, Len(text) - 1)) ELSE text

Trim(text) == TrimEnd(TrimStart(text))

\* cell.replace(/^"|"$/g, ''): one leading and one trailing double quote go
StripQuotes(cell) ==
    LET a == IF cell # <<>> /\ Head(cell) = "\"" THEN Tail(cell) ELSE cell
    IN  IF a # <<>> /\ a[Len(a)] = "\"" THEN SubSeq(a, 1, Len(a) - 1) ELSE a

\* String.prototype.toLowerCase on the letters the inputs use
LowerChar(c) ==
    CASE c = "N" -> "n"
      [] c = "E" -> "e"
      [] c = "A" -> "a"
      [] OTHER -> c

Lower(text) == [i \in DOMAIN text |-> LowerChar(text[i])]

SelectRows(rows) == SelectSeq(rows, LAMBDA row : \E i \in DOMAIN row : Len(row[i]) > 0)

----------------------------------------------------------------------------
(* Input files: the table csv-parser emits for a stored file *)

Header == << <<"N">>, <<"E">> >>

RowValues ==
    << << <<"a">>, <<"e">> >>,            \* name, email
       << <<"g", ",", "r">>, <<>> >>,     \* a name holding a comma, no email
       << <<"b">> >> >>                   \* a short row

Row(i) == RowValues[((i - 1) % Len(RowValues)) + 1]

Table(k, n) == [header |-> Header, rows |-> [i \in 1..n |-> Row(k + i)]]

FileContents == {Table(k, n) : k \in 0..(Len(RowValues) - 1), n \in 0..MaxRows}

\* the files offered to uploadFile
StoredFiles == {Table(0, n) : n \in 0..(MaxLines - 1)}

----------------------------------------------------------------------------
(* AttendanceController.readCsvFile: the rows csv-parser emits, joined again.   *)
(* A row object has one key per cell it holds, so the header line written is    *)
(* the key list of the first data row; no data row, no header line.             *)

RowKeys(table, row) == SubSeq(table.header, 1, Len(row))

RECURSIVE RowLines(_)
RowLines(rows) ==
    IF rows = <<>> THEN <<>>
    ELSE Join(Head(rows), Comma) \o NL \o RowLines(Tail(rows))

readCsvFile(table) ==
    IF table.rows = <<>> THEN <<>>
    ELSE Join(RowKeys(table, table.rows[1]), Comma) \o NL \o RowLines(table.rows)

----------------------------------------------------------------------------
(* AIMatchingService.processAttendanceMatching (its source is not part of the   *)
(* tree): the tabular parser and the shape of the result, after the design.     *)

NoDataError == "no data"
DbError == "database error"
ReadError == "read error"

Pad(cells, n) == [i \in 1..n |-> IF i <= Len(cells) THEN cells[i] ELSE <<>>]

ParsedLines(csvData) ==
    LET lines == SelectSeq(Split(csvData, NL), LAMBDA l : l # <<>>)
    IN  [i \in DOMAIN lines |-> Split(lines[i], Comma)]

ParsedRows(csvData) ==
    LET all == ParsedLines(csvData)
    IN  IF all = <<>> THEN <<>>
        ELSE [i \in 1..(Len(all) - 1) |-> Pad(all[i + 1], Len(all[1]))]

Indices(n) == [i \in 1..n |-> i]

\* the score the service gives a match of row i, in hundredths: full, at the
\* auto-accept mark, and just under it
RowConfidences == <<100, 90, 89>>
ConfidenceOf(i) == RowConfidences[((i - 1) % Len(RowConfidences)) + 1]

\* one result per parsed row: the rows of `matched` are matches, the rest unmatched
MatchingResult(csvData, matched) ==
    LET n == Len(ParsedRows(csvData))
        m == SelectSeq(Indices(n), LAMBDA i : i \in matched)
        u == SelectSeq(Indices(n), LAMBDA i : i \notin matched)
    IN  [matches |-> [j \in DOMAIN m |->
                        [row |-> m[j], studentId |-> m[j],
                         confidence |-> ConfidenceOf(m[j])]],
         unmatched |-> [j \in DOMAIN u |-> [row |-> u[j]]]]

MatchingThrows(csvData) == Len(ParsedRows(csvData)) = 0

----------------------------------------------------------------------------
(* AttendanceController.uploadFile *)

NewFileId == Cardinality(DOMAIN fileUploads) + 1

NewRun(fileId, filePath) ==
    [fileId |-> fileId, filePath |-> filePath, pc |-> "claim", csvData |-> <<>>,
     result |-> None, pending |-> {}, error |-> Null]

\* variant: processFileAsync called twice for the file
ProcessFileTwice(fileId, filePath) == <<NewRun(fileId, filePath), NewRun(fileId, filePath)>>

\* line 431: the one call of processFileAsync, not awaited
ProcessFileCalls(fileId, filePath) == <<NewRun(fileId, filePath)>>

\* variant: no answer in the turn that created the record
UploadRepliesLater(fileUpload) == <<>>

\* lines 433-444: the answer sent in the turn that created the record
UploadReplies(fileUpload) ==
    <<[code |-> 201, fileId |-> fileUpload.id,
       processingStatus |-> fileUpload.processingStatus]>>

ErrorReply(code) == [code |-> code, fileId |-> Null, processingStatus |-> Null]

NewFileUpload(id, filePath, user) ==
    [id |-> id, filePath |-> filePath, uploadedBy |-> user,
     processingStatus |-> "PENDING", processingResult |-> None,
     processingErrors |-> None, processedAt |-> Null]

Lines(table) == 1 + Len(table.rows)

RECURSIVE LinesStored(_)
LinesStored(dir) ==
    IF DOMAIN dir = {} THEN 0
    ELSE LET p == CHOOSE x \in DOMAIN dir : TRUE
         IN  Lines(dir[p]) + LinesStored([x \in DOMAIN dir \ {p} |-> dir[x]])

Put(f, k, v) == [x \in DOMAIN f \cup {k} |-> IF x = k THEN v ELSE f[x]]

Uploaders == {"teacher"}
SessionChecks == {"ok", "invalid", "missing", "forbidden"}

\* lines 394-412: the errors thrown before the try block
SessionError(check) ==
    CASE check = "invalid" -> 400
      [] check = "missing" -> 404
      [] OTHER -> 403

UploadFile ==
    /\ server = "backend" /\ alive
    /\ Len(responses) < MaxFiles
    /\ \E content \in StoredFiles, user \in Uploaders, check \in SessionChecks,
          createOk \in BOOLEAN :
         LET path == Len(responses) + 1
             id == NewFileId
             row == NewFileUpload(id, path, user)
         IN  /\ Lines(content) + LinesStored(uploadsDir) <= MaxLines
             /\ IF check # "ok"
                THEN \* the file multer stored stays
                     /\ uploadsDir' = Put(uploadsDir, path, content)
                     /\ responses' = Append(responses, ErrorReply(SessionError(check)))
                     /\ UNCHANGED <<fileUploads, runs, claimCount>>
                ELSE IF ~createOk
                THEN \* lines 446-452: unlink the stored file, rethrow
                     /\ responses' = Append(responses, ErrorReply(500))
                     /\ UNCHANGED <<uploadsDir, fileUploads, runs, claimCount>>
                ELSE /\ uploadsDir' = Put(uploadsDir, path, content)
                     /\ fileUploads' = Put(fileUploads, id, row)
                     /\ claimCount' = Put(claimCount, id, 0)
                     /\ runs' = runs \o ProcessFileCalls(id, path)
                     /\ responses' = responses \o UploadReplies(row)
    /\ statusReply' = NoStatusReply
    /\ UNCHANGED <<server, alive, processedRecords, pa, fb, att, auth>>

----------------------------------------------------------------------------
(* AttendanceController.processFileAsync, one action per awaited step.  Every   *)
(* awaited call either resolves or rejects; a rejection inside the try block    *)
(* enters the catch block.                                                       *)

SetRun(r, run) == [runs EXCEPT ![r] = run]

Update(id, data) ==
    [fileUploads EXCEPT ![id] = [k \in DOMAIN @ |-> IF k \in DOMAIN data THEN data[k] ELSE @[k]]]

\* lines 891-894
ProcessingData == [processingStatus |-> "PROCESSING"]

\* variant: the COMPLETED update without processedAt
CompletedDataNoDate(result) ==
    [processingStatus |-> "COMPLETED", processingResult |-> Some(result)]

\* lines 946-953
CompletedData(result) ==
    [processingStatus |-> "COMPLETED", processingResult |-> Some(result),
     processedAt |-> Now]

\* variant: a failed file is put back to PENDING
FailedDataRetry(message) ==
    [processingStatus |-> "PENDING",
     processingErrors |-> Some([message |-> message, timestamp |-> Now])]

\* lines 960-969
FailedData(message) ==
    [processingStatus |-> "FAILED",
     processingErrors |-> Some([message |-> message, timestamp |-> Now])]

\* variant: the code after the COMPLETED update throws into the catch block
AfterCompletedCatch == "catch"

\* lines 955-956: after the COMPLETED update the function returns
AfterCompleted == "done"

\* line 924, in hundredths
AutoAccept == 90

\* variant: the mark itself is not enough
IsVerifiedAbove(confidence) == confidence > AutoAccept

\* line 924: isVerified: match.confidence >= 0.9
IsVerified(confidence) == confidence >= AutoAccept

\* lines 907-943: the creates handed to Promise.all, matches first; a column the
\* data leaves out is null
Creates(fileId, result) ==
    [k \in 1..(Len(result.matches) + Len(result.unmatched)) |->
        IF k <= Len(result.matches)
        THEN [fileUploadId |-> fileId, row |-> result.matches[k].row,
              matchedStudentId |-> Some(result.matches[k].studentId),
              confidence |-> result.matches[k].confidence,
              matchMethod |-> "matched",
              isVerified |-> IsVerified(result.matches[k].confidence)]
        ELSE [fileUploadId |-> fileId, row |-> result.unmatched[k - Len(result.matches)].row,
              matchedStudentId |-> None,
              confidence |-> 0,
              matchMethod |-> "none",
              isVerified |-> FALSE]]

Throw(run, message) == [run EXCEPT !.pc = "catch", !.error = message]

ClaimFile(r) ==
    /\ server = "backend" /\ alive
    /\ runs[r].pc = "claim"
    /\ \E ok \in BOOLEAN :
         IF ok
         THEN /\ fileUploads' = Update(runs[r].fileId, ProcessingData)
              /\ claimCount' = [claimCount EXCEPT ![runs[r].fileId] = @ + 1]
              /\ runs' = SetRun(r, [runs[r] EXCEPT !.pc = "read"])
         ELSE /\ runs' = SetRun(r, Throw(runs[r], DbError))
              /\ UNCHANGED <<fileUploads, claimCount>>
    /\ statusReply' = NoStatusReply
    /\ UNCHANGED <<server, alive, uploadsDir, processedRecords, responses, pa, fb, att, auth>>

ReadFile(r) ==
    /\ server = "backend" /\ alive
    /\ runs[r].pc = "read"
    /\ \E ok \in BOOLEAN :
         runs' = SetRun(r,
            IF ok
            THEN [runs[r] EXCEPT !.pc = "match",
                                 !.csvData = readCsvFile(uploadsDir[runs[r].filePath])]
            ELSE Throw(runs[r], ReadError))
    /\ statusReply' = NoStatusReply
    /\ UNCHANGED <<server, alive, uploadsDir, fileUploads, processedRecords, responses,
                   claimCount, pa, fb, att, auth>>

Match(r) ==
    /\ server = "backend" /\ alive
    /\ runs[r].pc = "match"
    /\ \E matched \in SUBSET (1..Len(ParsedRows(runs[r].csvData))) :
         LET result == MatchingResult(runs[r].csvData, matched)
             creates == Creates(runs[r].fileId, result)
         IN  runs' = SetRun(r,
                IF MatchingThrows(runs[r].csvData)
                THEN Throw(runs[r], NoDataError)
                ELSE [runs[r] EXCEPT !.pc = IF creates = <<>> THEN "complete" ELSE "persist",
                                     !.result = Some(result),
                                     !.pending = DOMAIN creates])
    /\ statusReply' = NoStatusReply
    /\ UNCHANGED <<server, alive, uploadsDir, fileUploads, processedRecords, responses,
                   claimCount, pa, fb, att, auth>>

\* one prisma.processedRecord.create of the Promise.all settles; the others go on
\* whether or not the run has already left the persist step
CreateRecord(r) ==
    /\ server = "backend" /\ alive
    /\ \E k \in runs[r].pending, ok \in BOOLEAN :
         LET left == runs[r].pending \ {k}
             run == [runs[r] EXCEPT !.pending = left]
         IN  /\ processedRecords' =
                   IF ok
                   THEN processedRecords (+) SetToBag({Creates(run.fileId, run.result[1])[k]})
                   ELSE processedRecords
             /\ runs' = SetRun(r,
                   IF run.pc # "persist" THEN run
                   ELSE IF ~ok THEN Throw(run, DbError)
                   ELSE IF left = {} THEN [run EXCEPT !.pc = "complete"]
                   ELSE run)
    /\ statusReply' = NoStatusReply
    /\ UNCHANGED <<server, alive, uploadsDir, fileUploads, responses, claimCount, pa, fb, att, auth>>

Complete(r) ==
    /\ server = "backend" /\ alive
    /\ runs[r].pc = "complete"
    /\ \E ok \in BOOLEAN :
         IF ok
         THEN /\ fileUploads' = Update(runs[r].fileId, CompletedData(runs[r].result[1]))
              /\ runs' = SetRun(r, [runs[r] EXCEPT !.pc = AfterCompleted])
         ELSE /\ runs' = SetRun(r, Throw(runs[r], DbError))
              /\ UNCHANGED fileUploads
    /\ statusReply' = NoStatusReply
    /\ UNCHANGED <<server, alive, uploadsDir, processedRecords, responses, claimCount, pa, fb, att, auth>>

\* the catch block; a rejection of its own update is an unhandled rejection, on
\* which handleUnhandledRejections ends the process
MarkFailed(r) ==
    /\ server = "backend" /\ alive
    /\ runs[r].pc = "catch"
    /\ \E ok \in BOOLEAN :
         IF ok
         THEN /\ fileUploads' = Update(runs[r].fileId, FailedData(runs[r].error))
              /\ runs' = SetRun(r, [runs[r] EXCEPT !.pc = "done"])
              /\ UNCHANGED alive
         ELSE /\ runs' = SetRun(r, [runs[r] EXCEPT !.pc = "rejected"])
              /\ alive' = FALSE
              /\ UNCHANGED fileUploads
    /\ statusReply' = NoStatusReply
    /\ UNCHANGED <<server, uploadsDir, processedRecords, responses, claimCount, pa, fb, att, auth>>

----------------------------------------------------------------------------
(* AttendanceController.getProcessingStatus *)

Users == {"teacher", "other", "admin"}


RecordsOf(id) == BagCardinality([e \in {x \in BagToSet(processedRecords) : x.fileUploadId = id}
                                   |-> processedRecords[e]])

StatusData(id) ==
    [code |-> 200, fileId |-> id,
     processingStatus |-> fileUploads[id].processingStatus,
     processingResult |-> fileUploads[id].processingResult,
     processingErrors |-> fileUploads[id].processingErrors,
     processedAt |-> fileUploads[id].processedAt,
     recordCount |-> RecordsOf(id)]

\* variant: no permission check
ForbiddenNever(user, fileUpload) == FALSE

\* line 479: neither an ADMIN nor the uploader
Forbidden(user, fileUpload) == user # "admin" /\ fileUpload.uploadedBy # user

\* lines 467-496: the answer to `user` asking for file `id`
StatusAnswer(id, user) ==
    IF id \notin DOMAIN fileUploads THEN [code |-> 404]
    ELSE IF Forbidden(user, fileUploads[id]) THEN [code |-> 403]
    ELSE StatusData(id)

GetProcessingStatus ==
    /\ server = "backend" /\ alive
    /\ \E id \in 1..MaxFiles, user \in Users :
         statusReply' = StatusAnswer(id, user)
    /\ UNCHANGED <<server, alive, uploadsDir, fileUploads, processedRecords, runs,
                   responses, claimCount, pa, fb, att, auth>>

----------------------------------------------------------------------------
(* POST /api/process-attendance of the simple server *)

MinCsvRows == 2

\* variant: the row check off by one
TooFewRowsOffByOne(rows) == Len(rows) < MinCsvRows - 1

\* line 118
TooFewRows(rows) == Len(rows) < MinCsvRows

\* lines 114-116: split on the two characters backslash and n, cells on commas
ParseCsv(csvData) ==
    LET lines == Split(csvData, BackslashN)
    IN  SelectRows([i \in DOMAIN lines |->
            LET cells == Split(lines[i], Comma)
            IN  [j \in DOMAIN cells |-> StripQuotes(Trim(cells[j]))]])

\* a request body: the lines of a table joined by the separator the client uses
CsvText(table, sep) ==
    Join(<<Join(table.header, Comma)>> \o
         [i \in DOMAIN table.rows |-> Join(table.rows[i], Comma)], sep)

CsvBodies ==
    {<<>>} \cup {CsvText(t, sep) : t \in FileContents, sep \in {NL, BackslashN}}

\* lines 129-135: the student database of the request (req.body.students)
Students ==
    {[id |-> 1, name |-> <<"a">>, email |-> <<"e">>],
     [id |-> 2, name |-> <<"g", "r">>, email |-> <<"f">>]}

StudentIds == {s.id : s \in Students}

\* confidences in hundredths, and the method tags the prompt offers
Confidences == {50, 100}
Methods == {"exact", "pattern"}
MatchEntries ==
    [row : 1..MaxRows, studentId : StudentIds, confidence : Confidences, method : Methods]
UnmatchedEntries == [row : 1..MaxRows]

SeqsUpTo(S, n) == UNION {[1..m -> S] : m \in 0..n}

\* what deepseek.chat.completions.create can do: reject, answer text that holds no
\* JSON object, or answer a JSON object with or without its two lists
OracleAnswers ==
    {[kind |-> k, hasMatches |-> FALSE, matches |-> <<>>,
      hasUnmatched |-> FALSE, unmatched |-> <<>>] : k \in {"throw", "text", "json"}}
    \cup
    {[kind |-> "json", hasMatches |-> TRUE, matches |-> p[1],
      hasUnmatched |-> TRUE, unmatched |-> p[2]] :
        p \in {q \in SeqsUpTo(MatchEntries, MaxOracleItems)
                      \X SeqsUpTo(UnmatchedEntries, MaxOracleItems) :
                  Len(q[1]) + Len(q[2]) <= MaxOracleItems}}

RECURSIVE SumConfidence(_)
SumConfidence(matches) ==
    IF matches = <<>> THEN 0 ELSE Head(matches).confidence + SumConfidence(Tail(matches))

\* lines 201-202: sum / length, which is NaN for an empty list
MeanConfidence(answer) ==
    IF ~answer.hasMatches THEN [nan |-> FALSE, num |-> 0, den |-> 1]
    ELSE IF answer.matches = <<>> THEN [nan |-> TRUE, num |-> 0, den |-> 0]
    ELSE [nan |-> FALSE, num |-> SumConfidence(answer.matches), den |-> Len(answer.matches)]

NoResponse == [code |-> 0, error |-> Null, data |-> None]
BadRequest(message) == [code |-> 400, error |-> message, data |-> None]
CsvRequired == "CSV data is required"
CsvTooShort == "CSV must contain headers and at least one data row"
OracleError == "oracle error"

\* lines 193-211
ProcessingResult(rows, answer) ==
    [code |-> 200, error |-> Null,
     data |-> Some([totalRows |-> Len(rows) - 1,
                    headers |-> rows[1],
                    matches |-> answer.matches,
                    unmatched |-> answer.unmatched,
                    confidence |-> MeanConfidence(answer)])]

\* lines 213-219
OracleFailure == [code |-> 500, error |-> OracleError, data |-> None]

\* `first` is the answer to an earlier request with the same body, if there was one
IdlePa == [pc |-> "idle", csvData |-> <<>>, rows |-> <<>>, oracle |-> "none",
           response |-> NoResponse, first |-> NoResponse]

\* the handler up to the awaited oracle call; the server keeps nothing from one
\* request to the next, so one request is followed
ProcessAttendance ==
    /\ server = "simple"
    /\ pa = IdlePa
    /\ \E csvData \in CsvBodies :
         LET rows == ParseCsv(csvData)
             req == [IdlePa EXCEPT !.csvData = csvData]
         IN  pa' = IF csvData = <<>>
                   THEN [req EXCEPT !.response = BadRequest(CsvRequired)]
                   ELSE IF TooFewRows(rows)
                   THEN [req EXCEPT !.response = BadRequest(CsvTooShort)]
                   ELSE [req EXCEPT !.pc = "oracle", !.rows = rows]
    /\ UNCHANGED <<server, backendVars, fb, att, auth>>

\* the oracle call settles and the handler answers
OracleSettles ==
    /\ server = "simple"
    /\ pa.pc = "oracle"
    /\ \E answer \in OracleAnswers :
         pa' = [pa EXCEPT !.pc = "idle", !.oracle = answer.kind,
                  !.response = IF answer.kind = "throw" THEN OracleFailure
                               ELSE ProcessingResult(pa.rows, answer)]
    /\ UNCHANGED <<server, backendVars, fb, att, auth>>

\* the same body is posted once more after its answer; the handler runs again
\* up to its oracle call, the first answer is kept for comparison
Resubmit ==
    /\ server = "simple"
    /\ pa.pc = "idle" /\ pa.oracle # "none"
    /\ pa.first = NoResponse
    /\ pa' = [pa EXCEPT !.pc = "oracle", !.rows = ParseCsv(pa.csvData),
                        !.oracle = "none", !.response = NoResponse,
                        !.first = pa.response]
    /\ UNCHANGED <<server, backendVars, fb, att, auth>>

----------------------------------------------------------------------------
(* Feedback: provideFeedback of the backend and the learner it calls *)

MaxFeedback == 3
MaxBucket == 2

\* AI_CONFIDENCE_THRESHOLD when the environment does not set it, in hundredths
DefaultThreshold == 70

\* the range and the step of the learner's acceptance threshold, in hundredths
MinThreshold == 50
MaxThreshold == 95
ThresholdStep == 15
InitialThresholdLow == DefaultThreshold - ThresholdStep - ThresholdStep
InitialThreshold == DefaultThreshold

\* request bodies: context carries the caller's request identifier when it has one;
\* the last body fails feedbackSchema (originalName is empty)
FeedbackBodies ==
    {[originalName |-> <<"a">>, correctStudentId |-> 1, wasCorrect |-> FALSE,
      confidence |-> 100, context |-> None],
     [originalName |-> <<"a">>, correctStudentId |-> 2, wasCorrect |-> TRUE,
      confidence |-> 50, context |-> None],
     [originalName |-> <<"a">>, correctStudentId |-> 1, wasCorrect |-> TRUE,
      confidence |-> 50, context |-> Some(1)],
     [originalName |-> <<"a">>, correctStudentId |-> 2, wasCorrect |-> FALSE,
      confidence |-> 100, context |-> Some(1)],
     [originalName |-> <<>>, correctStudentId |-> 1, wasCorrect |-> TRUE,
      confidence |-> 50, context |-> None]}

FeedbackValid(body) == Len(body.originalName) >= 1

\* the record the learner receives: the validated body and the time bucket of
\* its submission
FeedbackRecord(body, bucket) ==
    [originalName |-> body.originalName, correctStudentId |-> body.correctStudentId,
     wasCorrect |-> body.wasCorrect, confidence |-> body.confidence,
     context |-> body.context, bucket |-> bucket]

\* what makes two submissions the same: the request identifier when the caller
\* gave one, else name, correct entry and time bucket
KeyOf(rec) ==
    IF rec.context # None
    THEN [requestId |-> rec.context, originalName |-> <<>>, correctStudentId |-> 0,
          bucket |-> 0]
    ELSE [requestId |-> None, originalName |-> rec.originalName,
          correctStudentId |-> rec.correctStudentId, bucket |-> rec.bucket]

NeverDuplicate(store, rec) == FALSE
Duplicate(store, rec) == \E i \in DOMAIN store : KeyOf(store[i]) = KeyOf(rec)

\* up when the system accepted a wrong match, down when a right match scored
\* under the threshold
Nudge(rec, threshold) ==
    IF ~rec.wasCorrect THEN ThresholdStep
    ELSE IF rec.confidence < threshold THEN 0 - ThresholdStep
    ELSE 0

Clamp(x) ==
    IF x < MinThreshold THEN MinThreshold
    ELSE IF x > MaxThreshold THEN MaxThreshold
    ELSE x

\* the learner: append the record and move the threshold, once per submission
processFeedback(learner, rec) ==
    IF Duplicate(learner.store, rec)
    THEN learner
    ELSE [store |-> Append(learner.store, rec),
          threshold |-> Clamp(learner.threshold + Nudge(rec, learner.threshold))]

NoFeedback ==
    [originalName |-> <<>>, correctStudentId |-> 0, wasCorrect |-> FALSE,
     confidence |-> 0, context |-> None, bucket |-> 0]

IdleFb ==
    [pc |-> "idle", req |-> NoFeedback, code |-> 0, bucket |-> 1, count |-> 0,
     repeats |-> 0, store |-> <<>>, threshold |-> InitialThreshold]

FeedbackUsers == {"none", "teacher"}

FeedbackRecorded == 200
FeedbackRejected == 500

\* POST /api/attendance/feedback up to the await of the learner's call
ProvideFeedback ==
    /\ server = "backend" /\ alive
    /\ fb.pc # "learner"
    /\ fb.count < MaxFeedback
    /\ \E user \in FeedbackUsers, body \in FeedbackBodies :
          fb' = IF user = "none"
                THEN [fb EXCEPT !.pc = "refused", !.req = NoFeedback, !.code = 401,
                                !.count = @ + 1]
                ELSE IF ~FeedbackValid(body)
                THEN [fb EXCEPT !.pc = "refused", !.req = NoFeedback, !.code = 400,
                                !.count = @ + 1]
                ELSE [fb EXCEPT !.pc = "learner", !.code = 0, !.count = @ + 1,
                                !.req = FeedbackRecord(body, fb.bucket)]
    /\ UNCHANGED <<server, backendVars, pa, att, auth>>

\* the awaited call settles: the handler answers 200 after it resolves, the
\* error handler answers after it rejects
LearnerSettles ==
    /\ server = "backend" /\ alive
    /\ fb.pc = "learner"
    /\ \E resolves \in BOOLEAN :
          fb' = IF resolves
                THEN LET learner == processFeedback([store |-> fb.store,
                                                     threshold |-> fb.threshold], fb.req)
                     IN  [fb EXCEPT !.pc = "done", !.code = FeedbackRecorded,
                                    !.store = learner.store,
                                    !.threshold = learner.threshold,
                                    !.repeats = IF \E i \in DOMAIN fb.store :
                                                      fb.store[i] = fb.req
                                                 THEN @ + 1 ELSE @]
                ELSE [fb EXCEPT !.pc = "failed", !.code = FeedbackRejected]
    /\ UNCHANGED <<server, backendVars, pa, att, auth>>

\* time passes into the next bucket
NextBucket ==
    /\ server = "backend"
    /\ fb.bucket < MaxBucket
    /\ fb' = [fb EXCEPT !.bucket = @ + 1]
    /\ UNCHANGED <<server, backendVars, pa, att, auth>>

----------------------------------------------------------------------------
(* markAttendance and markBulkAttendance of the backend.  An upsert finds the   *)
(* record of its (session, student) pair and then updates or creates it; the    *)
(* table's unique key on the pair rejects a create that comes second.           *)

MaxMarkRequests == 2

TheSession == "s1"
KnownStudents == {1, 2}
FullConfidence == 100
SeedConfidence == 80

\* a record made by file processing before any manual mark
SeedRecord ==
    [sessionId |-> TheSession, studentId |-> 1, status |-> "PRESENT", notes |-> "",
     aiMethod |-> "AI", confidence |-> SeedConfidence,
     verifiedBy |-> Null, verifiedAt |-> Null]

Mark(studentId, status) == [studentId |-> studentId, status |-> status, notes |-> "n"]

\* request bodies of POST /api/attendance/mark; student 3 does not exist
MarkBodies == {Mark(1, "ABSENT"), Mark(2, "PRESENT"), Mark(3, "PRESENT")}

\* request bodies of POST /api/attendance/bulk-mark (their records)
BulkBodies ==
    {<<Mark(1, "ABSENT"), Mark(2, "PRESENT")>>,
     <<Mark(2, "ABSENT")>>,
     <<Mark(2, "PRESENT"), Mark(2, "ABSENT")>>,
     <<Mark(1, "PRESENT"), Mark(3, "PRESENT")>>}

StudentIdsOf(records) == {records[i].studentId : i \in DOMAIN records}

\* lines 598-607: findMany returns each existing student once
StudentsMissing(records) ==
    Cardinality(StudentIdsOf(records) \cap KnownStudents) # Len(records)

\* lines 543-548 and 619-624
UpdateData(record, mark, user) ==
    [record EXCEPT !.status = mark.status, !.notes = mark.notes,
                   !.verifiedBy = user, !.verifiedAt = Now]

\* lines 549-558 and 625-634
CreateData(mark, user) ==
    [sessionId |-> TheSession, studentId |-> mark.studentId, status |-> mark.status,
     notes |-> mark.notes, aiMethod |-> "manual", confidence |-> FullConfidence,
     verifiedBy |-> user, verifiedAt |-> Now]

HasRecord(records, studentId) ==
    \E i \in DOMAIN records :
        records[i].sessionId = TheSession /\ records[i].studentId = studentId

\* variant: a table without the unique key
NoUniqueKey(records, studentId) == FALSE

\* schema.prisma line 163: @@unique([sessionId, studentId])
UniqueViolation(records, studentId) == HasRecord(records, studentId)

Created == 201
Conflict == 409
ServerError == 500

NewUpsert(req, mark, user) ==
    [req |-> req, mark |-> mark, user |-> user, pc |-> "find", found |-> FALSE]

IdleAtt == [records |-> <<SeedRecord>>, ops |-> <<>>, answers |-> <<>>, bulk |-> <<>>]

\* the handlers up to their upserts: the checks answer with an error, or the
\* upserts of the request start (one for mark, all of them at once for bulk-mark)
StartMarks(records, isBulk) ==
    /\ server = "backend" /\ alive
    /\ Len(att.answers) < MaxMarkRequests
    /\ \E user \in Uploaders, check \in SessionChecks \ {"invalid"} :
         LET req == Len(att.answers) + 1
         IN  att' = IF check # "ok"
                    THEN [att EXCEPT !.answers = Append(@, SessionError(check)),
                                     !.bulk = Append(@, isBulk)]
                    ELSE IF StudentsMissing(records)
                    THEN [att EXCEPT !.answers = Append(@, IF isBulk THEN 400 ELSE 404),
                                     !.bulk = Append(@, isBulk)]
                    ELSE [att EXCEPT !.answers = Append(@, IF records = <<>> THEN Created ELSE 0),
                                     !.bulk = Append(@, isBulk),
                                     !.ops = @ \o [i \in DOMAIN records |->
                                                     NewUpsert(req, records[i], user)]]
    /\ UNCHANGED <<server, backendVars, pa, fb, auth>>

MarkAttendance == \E body \in MarkBodies : StartMarks(<<body>>, FALSE)

MarkBulkAttendance == \E records \in BulkBodies : StartMarks(records, TRUE)

\* the first half of an upsert: look the pair up
UpsertFind(o) ==
    /\ server = "backend" /\ alive
    /\ att.ops[o].pc = "find"
    /\ att' = [att EXCEPT !.ops[o].pc = "write",
                          !.ops[o].found = HasRecord(att.records, att.ops[o].mark.studentId)]
    /\ UNCHANGED <<server, backendVars, pa, fb, auth>>

RecordIndex(records, studentId) ==
    CHOOSE i \in DOMAIN records :
        records[i].sessionId = TheSession /\ records[i].studentId = studentId

\* the answer of the request of upsert o once o has settled as `pc`: the first
\* rejection answers with the error, the last fulfilment with 201
AnswerAfter(o, pc, code) ==
    LET req == att.ops[o].req
        others == {k \in DOMAIN att.ops : k # o /\ att.ops[k].req = req}
    IN  IF att.answers[req] # 0 THEN att.answers[req]
        ELSE IF pc = "rejected" THEN code
        ELSE IF \A k \in others : att.ops[k].pc = "done" THEN Created
        ELSE 0

\* the second half of an upsert: update the record found, or create one
UpsertWrite(o) ==
    /\ server = "backend" /\ alive
    /\ att.ops[o].pc = "write"
    /\ \E ok \in BOOLEAN :
         LET op == att.ops[o]
             id == op.mark.studentId
             i == RecordIndex(att.records, id)
         IN  att' =
               IF ~ok
               THEN [att EXCEPT !.ops[o].pc = "rejected",
                                !.answers[op.req] = AnswerAfter(o, "rejected", ServerError)]
               ELSE IF op.found
               THEN [att EXCEPT !.ops[o].pc = "done",
                                !.records[i] = UpdateData(@, op.mark, op.user),
                                !.answers[op.req] = AnswerAfter(o, "done", Created)]
               ELSE IF UniqueViolation(att.records, id)
               THEN [att EXCEPT !.ops[o].pc = "rejected",
                                !.answers[op.req] = AnswerAfter(o, "rejected", Conflict)]
               ELSE [att EXCEPT !.ops[o].pc = "done",
                                !.records = Append(@, CreateData(op.mark, op.user)),
                                !.answers[op.req] = AnswerAfter(o, "done", Created)]
    /\ UNCHANGED <<server, backendVars, pa, fb, auth>>

----------------------------------------------------------------------------
(* AuthService: refreshToken, changePassword, resetPassword and                 *)
(* requestPasswordReset, one action per awaited database or Redis call.         *)
(* Refresh tokens are numbered in the order generateTokens issues them; all     *)
(* belong to the one user of the model.                                         *)

MaxAuthCalls == 2
MaxTokens == 3

\* token 1 was issued at login
IdleAuth ==
    [tokens |-> {1}, issued |-> 1, parent |-> <<0>>, calls |-> <<>>,
     passwordVersion |-> 0, resetKey |-> FALSE, probe |-> <<>>]

NewCall(kind, pc, token, stale) ==
    [kind |-> kind, pc |-> pc, token |-> token, since |-> auth.issued, stale |-> stale]

PasswordCalls == {"change", "reset"}

\* history: a password call that succeeded had started when `token` was already issued
Outdated(token) ==
    \E c \in DOMAIN auth.calls :
        /\ auth.calls[c].kind \in PasswordCalls
        /\ auth.calls[c].pc = "done"
        /\ auth.calls[c].since >= token

\* refreshToken up to the lookup: a token that is not stored is refused
RefreshFind ==
    /\ server = "backend"
    /\ Len(auth.calls) < MaxAuthCalls
    /\ \E token \in 1..auth.issued :
         auth' = [auth EXCEPT !.calls = Append(@,
                    NewCall("refresh",
                            IF token \in auth.tokens THEN "generate" ELSE "rejected",
                            token, Outdated(token)))]
    /\ UNCHANGED <<server, backendVars, pa, fb, att>>

\* generateTokens: the new refresh token is stored
RefreshGenerate(c) ==
    /\ server = "backend"
    /\ auth.calls[c].pc = "generate"
    /\ auth.issued < MaxTokens
    /\ auth' = [auth EXCEPT !.issued = @ + 1,
                           !.tokens = @ \cup {auth.issued + 1},
                           !.parent = Append(@, auth.calls[c].token),
                           !.calls[c].pc = "delete"]
    /\ UNCHANGED <<server, backendVars, pa, fb, att>>

\* the old token is deleted by id; deleting a record that is gone rejects
RefreshDelete(c) ==
    /\ server = "backend"
    /\ auth.calls[c].pc = "delete"
    /\ auth' = IF auth.calls[c].token \in auth.tokens
               THEN [auth EXCEPT !.tokens = @ \ {auth.calls[c].token},
                                 !.calls[c].pc = "done"]
               ELSE [auth EXCEPT !.calls[c].pc = "rejected"]
    /\ UNCHANGED <<server, backendVars, pa, fb, att>>

\* changePassword up to the password check, resetPassword up to the Redis lookup
PasswordStart ==
    /\ server = "backend"
    /\ Len(auth.calls) < MaxAuthCalls
    /\ \E kind \in PasswordCalls, passwordOk \in BOOLEAN :
         LET passes == IF kind = "change" THEN passwordOk ELSE auth.resetKey
         IN  auth' = [auth EXCEPT !.calls = Append(@,
                        NewCall(kind, IF passes THEN "update" ELSE "rejected", 0, FALSE))]
    /\ UNCHANGED <<server, backendVars, pa, fb, att>>

\* prisma.user.update; resetPassword then removes its key
PasswordUpdate(c) ==
    /\ server = "backend"
    /\ auth.calls[c].pc = "update"
    /\ auth' = [auth EXCEPT !.passwordVersion = @ + 1,
                           !.resetKey = IF auth.calls[c].kind = "reset" THEN FALSE ELSE @,
                           !.calls[c].pc = "logout"]
    /\ UNCHANGED <<server, backendVars, pa, fb, att>>

\* variant: logoutAll leaves the tokens
TokensKept(tokens) == tokens

\* logoutAll: deleteMany of the user's refresh tokens
TokensAfterLogoutAll(tokens) == {}

LogoutAll(c) ==
    /\ server = "backend"
    /\ auth.calls[c].pc = "logout"
    /\ \E ok \in BOOLEAN :
         auth' = IF ok
                 THEN [auth EXCEPT !.tokens = TokensAfterLogoutAll(@),
                                   !.calls[c].pc = "done"]
                 ELSE [auth EXCEPT !.calls[c].pc = "rejected"]
    /\ UNCHANGED <<server, backendVars, pa, fb, att>>

\* variant: a failed SET throws
RedisSetThrows(ok) == [threw |-> ~ok, stored |-> ok]

\* RedisConnection.set: a failure is logged and answered with false
RedisSet(ok) == [threw |-> FALSE, stored |-> ok]

ResetRequested ==
    [code |-> 200,
     message |-> "If an account with that email exists, a password reset link has been sent"]
ResetFailed == [code |-> 500, message |-> "Internal server error"]

\* AuthController.requestPasswordReset over AuthService.requestPasswordReset:
\* the answer to the caller, and whether the reset key is stored
PasswordResetRequest(userExists, findOk, redisOk) ==
    IF ~findOk THEN [response |-> ResetFailed, stored |-> FALSE]
    ELSE IF ~userExists THEN [response |-> ResetRequested, stored |-> FALSE]
    ELSE IF RedisSet(redisOk).threw THEN [response |-> ResetFailed, stored |-> FALSE]
    ELSE [response |-> ResetRequested, stored |-> RedisSet(redisOk).stored]

\* a reset request for the email of the user or for an email without account;
\* `twin` is the answer the same request gets when only the existence of the
\* account is the other way round
RequestPasswordReset ==
    /\ server = "backend"
    /\ \E userExists, findOk, redisOk \in BOOLEAN :
         LET run == PasswordResetRequest(userExists, findOk, redisOk)
             other == PasswordResetRequest(~userExists, findOk, redisOk)
         IN  auth' = [auth EXCEPT
                        !.resetKey = @ \/ run.stored,
                        !.probe = <<[redisFailed |-> userExists /\ findOk /\ ~redisOk,
                                     response |-> run.response,
                                     twin |-> other.response]>>]
    /\ UNCHANGED <<server, backendVars, pa, fb, att>>

----------------------------------------------------------------------------
(* The system *)

Servers == {"backend", "simple"}

Start(s) ==
    /\ server = s
    /\ alive = TRUE
    /\ uploadsDir = <<>>
    /\ fileUploads = <<>>
    /\ processedRecords = EmptyBag
    /\ runs = <<>>
    /\ responses = <<>>
    /\ statusReply = NoStatusReply
    /\ claimCount = <<>>
    /\ pa = IdlePa
    /\ fb = IdleFb
    /\ att = IdleAtt
    /\ auth = IdleAuth

Init == \E s \in Servers : Start(s)

Next ==
    \/ UploadFile
    \/ \E r \in DOMAIN runs : ClaimFile(r)
    \/ \E r \in DOMAIN runs : ReadFile(r)
    \/ \E r \in DOMAIN runs : Match(r)
    \/ \E r \in DOMAIN runs : CreateRecord(r)
    \/ \E r \in DOMAIN runs : Complete(r)
    \/ \E r \in DOMAIN runs : MarkFailed(r)
    \/ GetProcessingStatus
    \/ ProcessAttendance
    \/ OracleSettles

Spec == Init /\ [][Next]_vars

\* the simple server answering the same request twice
NextRepeat ==
    \/ ProcessAttendance
    \/ OracleSettles
    \/ Resubmit

InitRepeat == Start("simple")

SpecRepeat == InitRepeat /\ [][NextRepeat]_vars

\* the backend serving feedback requests
NextFeedback ==
    \/ ProvideFeedback
    \/ LearnerSettles
    \/ NextBucket

InitFeedback == Start("backend")

\* the backend serving mark and bulk-mark requests
NextAttendance ==
    \/ MarkAttendance
    \/ MarkBulkAttendance
    \/ \E o \in DOMAIN att.ops : UpsertFind(o)
    \/ \E o \in DOMAIN att.ops : UpsertWrite(o)

InitAttendance == Start("backend")

\* the backend serving AuthService calls
NextAuth ==
    \/ RefreshFind
    \/ \E c \in DOMAIN auth.calls : RefreshGenerate(c)
    \/ \E c \in DOMAIN auth.calls : RefreshDelete(c)
    \/ PasswordStart
    \/ \E c \in DOMAIN auth.calls : PasswordUpdate(c)
    \/ \E c \in DOMAIN auth.calls : LogoutAll(c)
    \/ RequestPasswordReset

InitAuth == Start("backend")

SpecAuth == InitAuth /\ [][NextAuth]_vars

SpecAttendance == InitAttendance /\ [][NextAttendance]_vars

SpecFeedback == InitFeedback /\ [][NextFeedback]_vars

----------------------------------------------------------------------------
(* Properties *)

StatusOf(id) == fileUploads[id].processingStatus
Terminal == {"COMPLETED", "FAILED"}
ActivePcs == {"claim", "read", "match", "persist", "complete", "catch"}
RunsOf(id) == {r \in DOMAIN runs : runs[r].fileId = id}
DataRows(id) == uploadsDir[fileUploads[id].filePath].rows
CopiesOfRow(id, i) ==
    BagCardinality([e \in {x \in BagToSet(processedRecords) :
                              x.fileUploadId = id /\ x.row = i} |-> processedRecords[e]])

\* C1: for every file id the update from PENDING to PROCESSING succeeds at most
\* once, and at most one call of processFileAsync is active for the id.
C1_ExclusiveClaim ==
    \A id \in DOMAIN fileUploads :
        /\ claimCount[id] <= 1
        /\ Cardinality({r \in RunsOf(id) : runs[r].pc \in ActivePcs}) <= 1

\* two files are in PROCESSING at once, each claimed once
C1_Witness ==
    \E a, b \in DOMAIN fileUploads :
        /\ a # b
        /\ StatusOf(a) = "PROCESSING" /\ StatusOf(b) = "PROCESSING"
        /\ claimCount[a] = 1 /\ claimCount[b] = 1

ThreeTransitions ==
    {<<"PENDING", "PROCESSING">>, <<"PROCESSING", "COMPLETED">>,
     <<"PROCESSING", "FAILED">>}

\* C2 as stated: every change of a file's status is PENDING to PROCESSING,
\* PROCESSING to COMPLETED or PROCESSING to FAILED.
C2_OnlyThreeTransitions ==
    [][\A id \in DOMAIN fileUploads :
          fileUploads'[id].processingStatus # StatusOf(id)
          => <<StatusOf(id), fileUploads'[id].processingStatus>> \in ThreeTransitions]_vars

\* C2 amended: every change of a file's status is one of the three transitions
\* or PENDING to FAILED, and PENDING to FAILED is taken only by a run whose
\* update to PROCESSING was rejected.
C2_Transitions ==
    [][\A id \in DOMAIN fileUploads :
          fileUploads'[id].processingStatus # StatusOf(id)
          => \/ <<StatusOf(id), fileUploads'[id].processingStatus>> \in ThreeTransitions
             \/ /\ StatusOf(id) = "PENDING"
                /\ fileUploads'[id].processingStatus = "FAILED"
                /\ claimCount[id] = 0
                /\ fileUploads'[id].processingErrors = Some([message |-> DbError,
                                                            timestamp |-> Now])]_vars

\* a file went from PENDING to FAILED, another through PROCESSING to COMPLETED
C2_Witness ==
    \E a, b \in DOMAIN fileUploads :
        /\ StatusOf(a) = "FAILED" /\ claimCount[a] = 0
        /\ StatusOf(b) = "COMPLETED" /\ claimCount[b] = 1

\* C3: once a file is COMPLETED or FAILED, no step changes its status, its
\* result or its error detail.
C3_TerminalIsFinal ==
    [][\A id \in DOMAIN fileUploads :
          StatusOf(id) \in Terminal
          => /\ fileUploads'[id].processingStatus = StatusOf(id)
             /\ fileUploads'[id].processingResult = fileUploads[id].processingResult
             /\ fileUploads'[id].processingErrors = fileUploads[id].processingErrors
             /\ fileUploads'[id].processedAt = fileUploads[id].processedAt]_vars

\* a file is FAILED while a create of its run is still to settle and the run
\* of another file is still active
C3_Witness ==
    \E r, q \in DOMAIN runs :
        /\ StatusOf(runs[r].fileId) = "FAILED" /\ runs[r].pending # {}
        /\ runs[q].fileId # runs[r].fileId /\ runs[q].pc \in ActivePcs

\* C4 as stated: a COMPLETED file has exactly one persisted record for every
\* data row of its input, and a successful process-attendance answer holds
\* exactly one result for every data row of the request.
C4_OneResultPerRow ==
    /\ \A id \in DOMAIN fileUploads :
          StatusOf(id) = "COMPLETED"
          => /\ RecordsOf(id) = Len(DataRows(id))
             /\ \A i \in DOMAIN DataRows(id) : CopiesOfRow(id, i) = 1
    /\ pa.response.code = 200
       => LET m == pa.response.data[1].matches
              u == pa.response.data[1].unmatched
          IN  \A i \in 1..pa.response.data[1].totalRows :
                 Cardinality({j \in DOMAIN m : m[j].row = i})
                 + Cardinality({j \in DOMAIN u : u[j].row = i}) = 1

\* C5 as stated, in its finite form: a call of processFileAsync that has ended
\* leaves its file COMPLETED or FAILED.
C5_EndsCompletedOrFailed ==
    \A r \in DOMAIN runs :
        (runs[r].pc \in {"done", "rejected"} \/ ~alive)
        => StatusOf(runs[r].fileId) \in Terminal

\* C6 as stated: a FAILED file has no processed record and no result.
C6_FailedHoldsOnlyError ==
    \A id \in DOMAIN fileUploads :
        StatusOf(id) = "FAILED"
        => /\ RecordsOf(id) = 0
           /\ fileUploads[id].processingResult = None
           /\ fileUploads[id].processingErrors # None

\* C7 as stated: a request whose oracle call failed is answered with success.
C7_OracleFailureTolerated ==
    pa.oracle = "throw" => pa.response.code = 200

\* C8: a file with a header and no data row is never COMPLETED: once claimed
\* and read its run fails with the no-data error; and a process-attendance
\* request with a header and no data row is answered 400 with the
\* missing-rows error.
C8_NoDataIsAnError ==
    /\ \A r \in DOMAIN runs :
          DataRows(runs[r].fileId) = <<>>
          => /\ StatusOf(runs[r].fileId) # "COMPLETED"
             /\ runs[r].pc \notin {"persist", "complete"}
             /\ (claimCount[runs[r].fileId] = 1 /\ runs[r].error \notin {Null, ReadError})
                => runs[r].error = NoDataError
    /\ (pa.csvData # <<>> /\ pa.csvData \in {CsvText(Table(0, 0), sep) : sep \in {NL, BackslashN}})
       => pa.pc = "idle" /\ pa.response = BadRequest(CsvTooShort)

\* a file without data rows is FAILED with the no-data error
C8_Witness ==
    \E id \in DOMAIN fileUploads :
        /\ DataRows(id) = <<>>
        /\ StatusOf(id) = "FAILED"
        /\ fileUploads[id].processingErrors[1].message = NoDataError

Consistent(d) ==
    /\ (d.processingResult # None) <=> (d.processingStatus = "COMPLETED")
    /\ (d.processedAt # Null) <=> (d.processingStatus = "COMPLETED")
    /\ (d.processingErrors # None) <=> (d.processingStatus = "FAILED")
    /\ ~(d.processingResult # None /\ d.processingErrors # None)

\* C10: in every state and in every answer of the status query, result and
\* processedAt are present exactly when the status is COMPLETED, error detail
\* exactly when it is FAILED, and never both.
C10_StatusConsistent ==
    /\ \A id \in DOMAIN fileUploads : Consistent(StatusData(id))
    /\ statusReply.code = 200 => Consistent(statusReply)

\* the status query answers for a COMPLETED file
C10_Witness ==
    /\ statusReply.code = 200
    /\ statusReply.processingStatus = "COMPLETED"
    /\ statusReply.recordCount > 0

----------------------------------------------------------------------------
(* Matching: process-attendance results against the student database *)

EmailColumn == 2

\* the students whose email equals the row's email cell, letter case aside
ExactTargets(row) ==
    {s \in Students : /\ Len(row) >= EmailColumn
                      /\ row[EmailColumn] # <<>>
                      /\ Lower(row[EmailColumn]) = Lower(s.email)}

\* C11 as stated: once the oracle call of a request has settled, whatever its
\* outcome, every data row whose email equals that of a student is in the
\* answer's matches with that student, confidence 1.0 and method exact.
C11_ExactMatchAlways ==
    pa.oracle # "none"
    => \A i \in 1..(Len(pa.rows) - 1) :
          \A s \in ExactTargets(pa.rows[i + 1]) :
              /\ pa.response.code = 200
              /\ \E j \in DOMAIN pa.response.data[1].matches :
                    pa.response.data[1].matches[j] =
                        [row |-> i, studentId |-> s.id, confidence |-> 100,
                         method |-> "exact"]

\* C12 as stated: every entry of the matches of a successful answer has a
\* confidence of at least the threshold.
C12_MatchedAboveThreshold ==
    pa.response.code = 200
    => \A j \in DOMAIN pa.response.data[1].matches :
          pa.response.data[1].matches[j].confidence >= DefaultThreshold

\* C13 as stated: no student is the target of the matches of two different
\* rows of a successful answer.
C13_NoDuplicateTarget ==
    pa.response.code = 200
    => \A j, k \in DOMAIN pa.response.data[1].matches :
          pa.response.data[1].matches[j].row # pa.response.data[1].matches[k].row
          => pa.response.data[1].matches[j].studentId
             # pa.response.data[1].matches[k].studentId

MatchSet(response) ==
    {response.data[1].matches[j] : j \in DOMAIN response.data[1].matches}
UnmatchedSet(response) ==
    {response.data[1].unmatched[j] : j \in DOMAIN response.data[1].unmatched}

\* C14 as stated: two successful answers to the same body, with the same
\* student database and threshold, hold the same matches and the same
\* unmatched entries.
C14_SameInputSameResult ==
    (pa.first.code = 200 /\ pa.response.code = 200)
    => /\ MatchSet(pa.response) = MatchSet(pa.first)
       /\ UnmatchedSet(pa.response) = UnmatchedSet(pa.first)

C16_AckWithoutWaiting ==
    fb.pc \in {"learner", "failed"} => fb.code = FeedbackRecorded

\* C17: the threshold starts at the default and stays inside
\* [MinThreshold, MaxThreshold] whatever feedback is recorded.
C17_ThresholdInRange ==
    /\ fb.store = <<>> => fb.threshold = DefaultThreshold
    /\ fb.threshold >= MinThreshold
    /\ fb.threshold <= MaxThreshold

\* two recorded corrections have pushed the threshold to the edge of the range,
\* the second one further than the range allows
C17_Witness ==
    /\ Len(fb.store) = 2
    /\ \/ /\ fb.threshold = MinThreshold
          /\ DefaultThreshold - ThresholdStep - ThresholdStep < MinThreshold
       \/ /\ fb.threshold = MaxThreshold
          /\ DefaultThreshold + ThresholdStep + ThresholdStep > MaxThreshold

\* C19 as stated, the part about failure: when the job of one file has failed,
\* the job of another file that is still under way can go on (the process that
\* runs it is alive).
C19_JobsDoNotInterfere ==
    \A r, q \in DOMAIN runs :
        (/\ runs[r].fileId # runs[q].fileId
         /\ runs[r].pc = "rejected"
         /\ runs[q].pc \in ActivePcs)
        => alive

\* C20 as stated, for the parser of POST /api/process-attendance and the line
\* separator it splits on: a body of a header line and data lines is parsed to
\* as many data rows as it has data lines, none shorter than the header.
C20_NoRowDropped ==
    \A t \in FileContents :
        (pa.pc = "oracle" /\ t.rows # <<>> /\ pa.csvData = CsvText(t, BackslashN))
        => /\ Len(pa.rows) - 1 = Len(t.rows)
           /\ \A i \in 2..Len(pa.rows) : Len(pa.rows[i]) >= Len(pa.rows[1])

\* the rows of a run's result that are matches, and those that are not
MatchedRows(r) ==
    {runs[r].result[1].matches[j].row : j \in DOMAIN runs[r].result[1].matches}
UnmatchedRows(r) ==
    {runs[r].result[1].unmatched[j].row : j \in DOMAIN runs[r].result[1].unmatched}

\* C21: a processed record is verified exactly when it carries a matched student
\* with confidence of at least 0.9, and the record of an unmatched row is
\* unverified, has confidence 0 and no matched student.
C21_VerifiedIffHighMatch ==
    /\ \A rec \in BagToSet(processedRecords) :
          rec.isVerified <=> (rec.matchedStudentId # None /\ rec.confidence >= AutoAccept)
    /\ \A r \in DOMAIN runs :
          runs[r].result # None
          => \A rec \in BagToSet(processedRecords) :
                (rec.fileUploadId = runs[r].fileId /\ rec.row \in UnmatchedRows(r))
                => (~rec.isVerified /\ rec.confidence = 0 /\ rec.matchedStudentId = None)

\* one file has a verified record at the mark, and an unmatched row persisted
C21_Witness ==
    \E a, b \in BagToSet(processedRecords) :
        /\ a.fileUploadId = b.fileUploadId
        /\ a.isVerified /\ a.confidence = AutoAccept
        /\ b.matchedStudentId = None /\ ~b.isVerified

\* C22 as stated: the confidence of a successful process-attendance answer is
\* a number between 0 and 1 (here num / den in hundredths), and it is the mean
\* of the confidences of the returned matches.
C22_MeanInUnitInterval ==
    pa.response.code = 200
    => LET data == pa.response.data[1]
       IN  /\ ~data.confidence.nan
           /\ data.confidence.den > 0
           /\ data.confidence.num >= 0
           /\ data.confidence.num <= 100 * data.confidence.den
           /\ data.matches # <<>>
              => /\ data.confidence.num = SumConfidence(data.matches)
                 /\ data.confidence.den = Len(data.matches)

\* the cells of the data lines of a text: its non-empty lines after the first
DataLineCells(text) ==
    LET lines == SelectSeq(Split(text, NL), LAMBDA l : l # <<>>)
    IN  [i \in 1..(Len(lines) - 1) |-> Split(lines[i + 1], Comma)]

\* C23 as stated: the text readCsvFile returned for a file holds one line per
\* data row of the file, each with as many cells as the header and with the
\* row's cell values.
C23_ReadPreservesTable ==
    \A r \in DOMAIN runs :
        runs[r].csvData # <<>>
        => LET table == uploadsDir[runs[r].filePath]
               cells == DataLineCells(runs[r].csvData)
           IN  /\ Len(cells) = Len(table.rows)
               /\ \A i \in DOMAIN cells :
                     /\ Len(cells[i]) = Len(table.header)
                     /\ \A j \in DOMAIN table.rows[i] : cells[i][j] = table.rows[i][j]

\* C24 as stated: every file in the uploads directory belongs to a FileUpload
\* record, whichever way the upload requests have ended.
C24_NoOrphanFile ==
    \A path \in DOMAIN uploadsDir :
        \E id \in DOMAIN fileUploads : fileUploads[id].filePath = path

\* C25 as stated: a bulk-mark request that was answered with an error has
\* written none of its records.
C25_BulkAllOrNothing ==
    \A o \in DOMAIN att.ops :
        (att.bulk[att.ops[o].req] /\ att.answers[att.ops[o].req] >= 400)
        => att.ops[o].pc # "done"

PairsOf(records) ==
    {<<records[i].sessionId, records[i].studentId>> : i \in DOMAIN records}

\* C26: every step leaves at most one record per (session, student), and leaves
\* the session, student, aiMethod and confidence of every record as they were.
C26_OneRecordPerPair ==
    [][/\ Cardinality(PairsOf(att'.records)) = Len(att'.records)
       /\ \A i \in DOMAIN att.records :
             /\ i \in DOMAIN att'.records
             /\ att'.records[i].sessionId = att.records[i].sessionId
             /\ att'.records[i].studentId = att.records[i].studentId
             /\ att'.records[i].aiMethod = att.records[i].aiMethod
             /\ att'.records[i].confidence = att.records[i].confidence]_vars

\* the record made by file processing has been marked by hand, and of two
\* requests creating the record of the same pair the second was refused
C26_Witness ==
    /\ \E i \in DOMAIN att.records :
          /\ att.records[i].aiMethod = "AI"
          /\ att.records[i].verifiedBy # Null
          /\ att.records[i].status = "ABSENT"
    /\ \E o \in DOMAIN att.ops :
          /\ att.ops[o].pc = "rejected" /\ ~att.ops[o].found
          /\ att.answers[att.ops[o].req] = Conflict

\* C29: whatever the state of a file, the status query answers a user who is
\* neither its uploader nor an ADMIN with 403 and nothing else, and answers
\* with the file's data only the uploader and an ADMIN.
C29_StatusOnlyToOwnerOrAdmin ==
    \A id \in DOMAIN fileUploads, user \in Users :
        LET answer == StatusAnswer(id, user)
        IN  IF user = "admin" \/ user = fileUploads[id].uploadedBy
            THEN answer.code = 200
            ELSE answer.code = 403 /\ DOMAIN answer = {"code"}

\* a query for a COMPLETED file with records was refused
C29_Witness ==
    /\ statusReply.code = 403
    /\ \E id \in DOMAIN fileUploads :
          /\ StatusOf(id) = "COMPLETED" /\ RecordsOf(id) > 0
          /\ StatusAnswer(id, "other") = statusReply
          /\ StatusAnswer(id, "admin").code = 200

\* the stored tokens that were issued in exchange for `token`
StoredHeirs(token) == {n \in auth.tokens : auth.parent[n] = token}

\* the refreshToken calls with `token` that have not ended
RefreshUnderWay(token) ==
    {c \in DOMAIN auth.calls : /\ auth.calls[c].kind = "refresh"
                               /\ auth.calls[c].token = token
                               /\ auth.calls[c].pc \in {"generate", "delete"}}

\* C27 as stated: once the refreshToken calls with a token have ended, at most
\* one refresh token issued in exchange for it is stored, and a token that has
\* been exchanged is stored no longer.
C27_RefreshSingleUse ==
    \A token \in 1..auth.issued :
        /\ RefreshUnderWay(token) = {} => Cardinality(StoredHeirs(token)) <= 1
        /\ (\E c \in DOMAIN auth.calls :
               /\ auth.calls[c].kind = "refresh" /\ auth.calls[c].pc = "done"
               /\ auth.calls[c].token = token)
           => token \notin auth.tokens

\* C28: once changePassword or resetPassword has succeeded, no refresh token
\* issued before the call started is stored, and every refreshToken call made
\* with such a token since then has been refused.
C28_OldTokensRejected ==
    /\ \A c \in DOMAIN auth.calls :
          (auth.calls[c].kind \in PasswordCalls /\ auth.calls[c].pc = "done")
          => \A token \in auth.tokens : token > auth.calls[c].since
    /\ \A r \in DOMAIN auth.calls :
          (auth.calls[r].kind = "refresh" /\ auth.calls[r].stale)
          => auth.calls[r].pc = "rejected"

\* after a password call succeeded, a refreshToken call with a token from
\* before it was refused
C28_Witness ==
    \E c, r \in DOMAIN auth.calls :
        /\ auth.calls[c].kind \in PasswordCalls /\ auth.calls[c].pc = "done"
        /\ auth.calls[r].kind = "refresh" /\ auth.calls[r].stale
        /\ auth.calls[r].token <= auth.calls[c].since
        /\ auth.calls[r].pc = "rejected"

\* C30: a password-reset request gets the answer it would get if the account
\* existed where it does not, or did not exist where it does.
C30_ResetHidesAccount ==
    \A i \in DOMAIN auth.probe : auth.probe[i].response = auth.probe[i].twin

\* a request for an existing account was answered while Redis failed to store
\* the reset key
C30_Witness ==
    \E i \in DOMAIN auth.probe :
        /\ auth.probe[i].redisFailed
        /\ auth.probe[i].response = ResetRequested
        /\ ~auth.resetKey

====
